---- MODULE Spec2Model ----
(***************************************************************************)
(* Tic-tac-toe with move history (src/src/App.tsx).                        *)
(*                                                                         *)
(* App.tsx holds two definitions of the game: the combine-middleware one   *)
(* (lines 1-192, suffix 1 below) and the typed-store one (lines 194-378,   *)
(* suffix 2 below).  Both are modelled and driven side by side by the same *)
(* UI events.                                                              *)
(*                                                                         *)
(* Arrays of squares are functions over 0..8; history is a sequence, so    *)
(* the JavaScript history[k] is history[k + 1] here.                       *)
(***************************************************************************)
EXTENDS Integers, Sequences, FiniteSets, TLC

VARIABLES store, view, last, pending, squares, player, shown

vars == <<store, view, last, pending, squares, player, shown>>

storeVars == <<store, view, last, pending>>
evalVars == <<squares, player, shown>>

\* Largest history length an accepted play may produce in the model.
MaxHistory == 7

\* The modelled user clicks the squares 0..MaxSquare only.
MaxSquare == 5

\* In the games played to the end, the modelled user is free in the choice of
\* the last FreeSquares squares and follows Opening before; history lengths
\* are cut off at MaxFullHistory.
FreeSquares == 5
MaxFullHistory == 11

\* Direct calls of the store setters: histories of up to MaxStoreHistory
\* boards, currentMove up to MaxStoreMove.
MaxStoreHistory == 3
MaxStoreMove == 3

\* Handlers run one store call at a time: squares 0..MaxStepSquare, history
\* lengths up to MaxStepHistory.
MaxStepHistory == 4
MaxStepSquare == 3
Opening == <<0, 1, 2, 4>>

Versions == {1, 2}

NULL == "null"
Markers == {"X", "O"}
Cells == 0..8
Values == Markers \cup {NULL}
Boards == [Cells -> Values]

\* JavaScript truthiness of a value of type string | null.
Truthy(x) == x # NULL /\ x # ""

\* Array(9).fill(null)
EmptyBoard == [i \in Cells |-> NULL]

\* An argument of a store setter: a direct value, or an updater function of
\* the current value.  The updaters a caller may pass are named below.
Value(v) == [type |-> "value", value |-> v]
Updater(f) == [type |-> "function", fn |-> f]

HistoryUpdaters == {"dropLast", "repeatLast", "restart"}

applyHistoryUpdater(f, history) ==
    IF f = "dropLast" THEN SubSeq(history, 1, Len(history) - 1)
    ELSE IF f = "repeatLast" /\ history # <<>>
         THEN Append(history, history[Len(history)])
    ELSE IF f = "restart" THEN <<EmptyBoard>>
    ELSE history

MoveUpdaters == {"increment", "decrement", "reset"}

applyMoveUpdater(f, currentMove) ==
    IF f = "increment" THEN currentMove + 1
    ELSE IF f = "decrement" THEN currentMove - 1
    ELSE 0

----------------------------------------------------------------------------
(* First definition, lines 1-192 *)

InitialState1 == [history |-> <<EmptyBoard>>, currentMove |-> 0]

setHistory1(state, nextHistory) ==
    [state EXCEPT !.history =
        IF nextHistory.type = "function"
        THEN applyHistoryUpdater(nextHistory.fn, state.history)
        ELSE nextHistory.value]

setCurrentMove1(state, nextCurrentMove) ==
    [state EXCEPT !.currentMove =
        IF nextCurrentMove.type = "function"
        THEN applyMoveUpdater(nextCurrentMove.fn, state.currentMove)
        ELSE nextCurrentMove.value]

\* One call of a store setter, and a handler's calls run in their order.
applyWrite1(state, w) ==
    IF w.op = "setHistory" THEN setHistory1(state, w.arg)
    ELSE setCurrentMove1(state, w.arg)

RECURSIVE applyWrites1(_, _)
applyWrites1(state, ws) ==
    IF ws = <<>> THEN state
    ELSE applyWrites1(applyWrite1(state, Head(ws)), Tail(ws))

\* The middle column mistyped.
lines1_columnTypo ==
    << <<0, 1, 2>>, <<3, 4, 5>>, <<6, 7, 8>>,
       <<0, 3, 6>>, <<1, 4, 6>>, <<2, 5, 8>>,
       <<0, 4, 8>>, <<2, 4, 6>> >>

lines1 ==
    << <<0, 1, 2>>, <<3, 4, 5>>, <<6, 7, 8>>,
       <<0, 3, 6>>, <<1, 4, 7>>, <<2, 5, 8>>,
       <<0, 4, 8>>, <<2, 4, 6>> >>

lineWins1(sq, l) ==
    /\ Truthy(sq[l[1]])
    /\ sq[l[1]] = sq[l[2]]
    /\ sq[l[1]] = sq[l[3]]

RECURSIVE calculateWinnerFrom1(_, _)
calculateWinnerFrom1(sq, i) ==
    IF i > Len(lines1) THEN NULL
    ELSE IF lineWins1(sq, lines1[i]) THEN sq[lines1[i][1]]
    ELSE calculateWinnerFrom1(sq, i + 1)

calculateWinner1(sq) == calculateWinnerFrom1(sq, 1)

calculateTurns1(sq) == Cardinality({i \in Cells : sq[i] # NULL})

calculateStatus1(winner, turns, p) ==
    IF ~Truthy(winner) /\ turns = 0 THEN "Draw"
    ELSE IF Truthy(winner) THEN "Winner: " \o winner
    ELSE "Next player: " \o p

\* The turn taken from the length of the history instead of currentMove.
xIsNext1_fromLength(g) == (Len(g.history) - 1) % 2 = 0

xIsNext1(g) == g.currentMove % 2 = 0

currentSquares1(g) == g.history[g.currentMove + 1]

boardPlayer1(g) == IF xIsNext1(g) THEN "X" ELSE "O"

boardStatus1(g) ==
    calculateStatus1(calculateWinner1(currentSquares1(g)),
                     calculateTurns1(currentSquares1(g)),
                     boardPlayer1(g))

\* handlePlay without the slice: the new board is appended to the whole history.
handlePlay1_noTruncate(state, g, nextSquares) ==
    LET nextHistory == Append(g.history, nextSquares)
    IN  setCurrentMove1(setHistory1(state, Value(nextHistory)),
                        Value(Len(nextHistory) - 1))

\* currentMove advanced before the history is written.
handlePlayWrites1_moveFirst(g, nextSquares) ==
    LET nextHistory == Append(SubSeq(g.history, 1, g.currentMove + 1), nextSquares)
    IN  << [op |-> "setCurrentMove", arg |-> Value(Len(nextHistory) - 1)],
           [op |-> "setHistory", arg |-> Value(nextHistory)] >>

\* The store calls of handlePlay, in program order.
handlePlayWrites1(g, nextSquares) ==
    LET nextHistory == Append(SubSeq(g.history, 1, g.currentMove + 1), nextSquares)
    IN  << [op |-> "setHistory", arg |-> Value(nextHistory)],
           [op |-> "setCurrentMove", arg |-> Value(Len(nextHistory) - 1)] >>

handlePlay1(state, g, nextSquares) ==
    applyWrites1(state, handlePlayWrites1(g, nextSquares))

\* handleClick without the occupied-square test.
handleClickAccepts1_ignoresOccupied(g, i) ==
    ~Truthy(calculateWinner1(currentSquares1(g)))

handleClickAccepts1(g, i) ==
    ~(Truthy(currentSquares1(g)[i]) \/ Truthy(calculateWinner1(currentSquares1(g))))

nextSquares1(g, i) == [currentSquares1(g) EXCEPT ![i] = boardPlayer1(g)]

handleClick1(state, g, i) ==
    IF ~handleClickAccepts1(g, i) THEN state
    ELSE handlePlay1(state, g, nextSquares1(g, i))

jumpToWrites1(nextMove) ==
    << [op |-> "setCurrentMove", arg |-> Value(nextMove)] >>

jumpTo1(state, nextMove) == applyWrites1(state, jumpToWrites1(nextMove))

historyButtons1(g) == 0..(Len(g.history) - 1)

\* currentMove read once and never refreshed.
render1_staleCurrentMove(state) == [history |-> state.history, currentMove |-> 0]

render1(state) == [history |-> state.history, currentMove |-> state.currentMove]

----------------------------------------------------------------------------
(* Second definition, lines 194-378 *)

InitialState2 == [history |-> <<EmptyBoard>>, currentMove |-> 0]

\* The new state replaces the old one instead of being merged into it.
setHistory2_resetsMove(state, nextHistory) ==
    [history |-> IF nextHistory.type = "function"
                 THEN applyHistoryUpdater(nextHistory.fn, state.history)
                 ELSE nextHistory.value,
     currentMove |-> 0]

setHistory2(state, nextHistory) ==
    [state EXCEPT !.history =
        IF nextHistory.type = "function"
        THEN applyHistoryUpdater(nextHistory.fn, state.history)
        ELSE nextHistory.value]

setCurrentMove2(state, nextCurrentMove) ==
    [state EXCEPT !.currentMove =
        IF nextCurrentMove.type = "function"
        THEN applyMoveUpdater(nextCurrentMove.fn, state.currentMove)
        ELSE nextCurrentMove.value]

\* One call of a store setter, and a handler's calls run in their order.
applyWrite2(state, w) ==
    IF w.op = "setHistory" THEN setHistory2(state, w.arg)
    ELSE setCurrentMove2(state, w.arg)

RECURSIVE applyWrites2(_, _)
applyWrites2(state, ws) ==
    IF ws = <<>> THEN state
    ELSE applyWrites2(applyWrite2(state, Head(ws)), Tail(ws))

\* The table cut down to the rows.
WINNING_LINES_rowsOnly == << <<0, 1, 2>>, <<3, 4, 5>>, <<6, 7, 8>> >>

WINNING_LINES ==
    << <<0, 1, 2>>, <<3, 4, 5>>, <<6, 7, 8>>,
       <<0, 3, 6>>, <<1, 4, 7>>, <<2, 5, 8>>,
       <<0, 4, 8>>, <<2, 4, 6>> >>

\* The line test without the squares[a] truthiness test.
lineWins2_noTruthy(sq, l) ==
    /\ sq[l[1]] = sq[l[2]]
    /\ sq[l[1]] = sq[l[3]]

lineWins2(sq, l) ==
    /\ Truthy(sq[l[1]])
    /\ sq[l[1]] = sq[l[2]]
    /\ sq[l[1]] = sq[l[3]]

RECURSIVE calculateWinnerFrom2(_, _)
calculateWinnerFrom2(sq, i) ==
    IF i > Len(WINNING_LINES) THEN NULL
    ELSE IF lineWins2(sq, WINNING_LINES[i]) THEN sq[WINNING_LINES[i][1]]
    ELSE calculateWinnerFrom2(sq, i + 1)

calculateWinner2(sq) == calculateWinnerFrom2(sq, 1)

calculateTurns2(sq) == Cardinality({i \in Cells : sq[i] # NULL})

\* The draw test placed before the winner test.
calculateStatus2_drawFirst(winner, turns, p) ==
    IF turns = 9 THEN "Draw"
    ELSE IF Truthy(winner) THEN "Winner: " \o winner
    ELSE "Next player: " \o p

calculateStatus2(winner, turns, p) ==
    IF Truthy(winner) THEN "Winner: " \o winner
    ELSE IF turns = 9 THEN "Draw"
    ELSE "Next player: " \o p

xIsNext2(g) == g.currentMove % 2 = 0

currentSquares2(g) == g.history[g.currentMove + 1]

\* The two markers swapped.
boardPlayer2_swapped(g) == IF xIsNext2(g) THEN "O" ELSE "X"

boardPlayer2(g) == IF xIsNext2(g) THEN "X" ELSE "O"

boardStatus2(g) ==
    calculateStatus2(calculateWinner2(currentSquares2(g)),
                     calculateTurns2(currentSquares2(g)),
                     boardPlayer2(g))

\* handlePlay that sets currentMove to nextHistory.length.
handlePlay2_lengthAsIndex(state, g, nextSquares) ==
    LET nextHistory == Append(SubSeq(g.history, 1, g.currentMove + 1), nextSquares)
    IN  setCurrentMove2(setHistory2(state, Value(nextHistory)),
                        Value(Len(nextHistory)))

\* The whole history kept: [...history, nextSquares].
handlePlayWrites2_keepsFuture(g, nextSquares) ==
    LET nextHistory == Append(g.history, nextSquares)
    IN  << [op |-> "setHistory", arg |-> Value(nextHistory)],
           [op |-> "setCurrentMove", arg |-> Value(Len(nextHistory) - 1)] >>

\* The store calls of handlePlay, in program order.
handlePlayWrites2(g, nextSquares) ==
    LET nextHistory == Append(SubSeq(g.history, 1, g.currentMove + 1), nextSquares)
    IN  << [op |-> "setHistory", arg |-> Value(nextHistory)],
           [op |-> "setCurrentMove", arg |-> Value(Len(nextHistory) - 1)] >>

handlePlay2(state, g, nextSquares) ==
    applyWrites2(state, handlePlayWrites2(g, nextSquares))

\* handleClick without the winner test.
handleClickAccepts2_ignoresWinner(g, i) ==
    ~Truthy(currentSquares2(g)[i])

handleClickAccepts2(g, i) ==
    ~(Truthy(currentSquares2(g)[i]) \/ Truthy(calculateWinner2(currentSquares2(g))))

\* The marker fixed to "X".
nextSquares2_alwaysX(g, i) == [currentSquares2(g) EXCEPT ![i] = "X"]

nextSquares2(g, i) == [currentSquares2(g) EXCEPT ![i] = boardPlayer2(g)]

handleClick2(state, g, i) ==
    IF ~handleClickAccepts2(g, i) THEN state
    ELSE handlePlay2(state, g, nextSquares2(g, i))

\* jumpTo that also cuts the history back to the move jumped to.
jumpTo2_truncates(state, nextMove) ==
    setCurrentMove2(setHistory2(state, Value(SubSeq(state.history, 1, nextMove + 1))),
                    Value(nextMove))

jumpToWrites2(nextMove) ==
    << [op |-> "setCurrentMove", arg |-> Value(nextMove)] >>

jumpTo2(state, nextMove) == applyWrites2(state, jumpToWrites2(nextMove))

historyButtons2(g) == 0..(Len(g.history) - 1)

render2(state) == [history |-> state.history, currentMove |-> state.currentMove]

----------------------------------------------------------------------------
(* The two games side by side, driven by the same UI events.               *)
(*   store[v]  the zustand store of definition v                           *)
(*   view[v]   history and currentMove captured by Game's last render      *)
(*   last      the last UI event: its kind and index, whether handleClick  *)
(*             went on to call onPlay, and if so how many history entries  *)
(*             lay after currentMove at that moment                        *)

\* pending[v]: the store calls the running handler has still to make.
NoWrites == << >>

NoEval == [winner |-> NULL, turns |-> 0, status |-> ""]

StoreInit ==
    /\ store = <<InitialState1, InitialState2>>
    /\ view = <<render1(InitialState1), render2(InitialState2)>>
    /\ last = [op |-> "init", i |-> 0, accepted |-> <<FALSE, FALSE>>,
               cut |-> <<0, 0>>]
    /\ pending = <<NoWrites, NoWrites>>

Init ==
    /\ StoreInit
    /\ squares = EmptyBoard
    /\ player = "X"
    /\ shown = <<NoEval, NoEval>>

afterClick(i) ==
    <<handleClick1(store[1], view[1], i), handleClick2(store[2], view[2], i)>>

afterJump(i) == <<jumpTo1(store[1], i), jumpTo2(store[2], i)>>

rendered(s) == <<render1(s[1]), render2(s[2])>>

\* How many entries the history in view g holds after its currentMove.
later(g) == Len(g.history) - (g.currentMove + 1)

\* A click on square i: Board.handleClick(i) runs to completion, then the
\* components re-render from the store.
ClickEvent(i) ==
    LET next == afterClick(i)
        accepted == <<handleClickAccepts1(view[1], i),
                      handleClickAccepts2(view[2], i)>>
    IN  /\ store' = next
        /\ view' = rendered(next)
        /\ last' = [op |-> "click", i |-> i, accepted |-> accepted,
                    cut |-> <<IF accepted[1] THEN later(view[1]) ELSE 0,
                              IF accepted[2] THEN later(view[2]) ELSE 0>>]
        /\ UNCHANGED <<evalVars, pending>>

Click(i) ==
    /\ \A v \in Versions : Len(afterClick(i)[v].history) <= MaxHistory
    /\ ClickEvent(i)

\* A click on the history button of index i: jumpTo(i), then re-render.
Jump(i) ==
    /\ i \in historyButtons1(view[1]) \cap historyButtons2(view[2])
    /\ store' = afterJump(i)
    /\ view' = rendered(afterJump(i))
    /\ last' = [op |-> "jump", i |-> i, accepted |-> <<FALSE, FALSE>>,
                cut |-> <<0, 0>>]
    /\ UNCHANGED <<evalVars, pending>>

Next ==
    \/ \E i \in Cells : i <= MaxSquare /\ Click(i)
    \/ \E i \in 0..(MaxHistory - 1) : Jump(i)

Spec == Init /\ [][Next]_vars

----------------------------------------------------------------------------
(* Games played to the end on all nine squares: the first moves follow     *)
(* Opening, the squares left are clicked in any order, and every history   *)
(* button may be clicked at any time.                                      *)

FullClick(i) ==
    /\ \A v \in Versions :
         /\ view[v].currentMove < 9 - FreeSquares =>
               /\ view[v].currentMove < Len(Opening)
               /\ i = Opening[view[v].currentMove + 1]
         /\ Len(afterClick(i)[v].history) <= MaxFullHistory
    /\ ClickEvent(i)

NextFull ==
    \/ \E i \in Cells : FullClick(i)
    \/ \E i \in 0..(MaxFullHistory - 1) : Jump(i)

SpecFull == Init /\ [][NextFull]_vars

----------------------------------------------------------------------------
(* The evaluator on its own: Board's render computes winner, turns and     *)
(* status from the squares and xIsNext it is given (lines 105-108 and      *)
(* 297-300).  Every board over {null, X, O} and both players are inputs.   *)

InitEval ==
    /\ StoreInit
    /\ squares \in Boards
    /\ player \in Markers
    /\ shown = <<NoEval, NoEval>>

boardEval1(sq, p) ==
    [winner |-> calculateWinner1(sq),
     turns  |-> calculateTurns1(sq),
     status |-> calculateStatus1(calculateWinner1(sq), calculateTurns1(sq), p)]

boardEval2(sq, p) ==
    [winner |-> calculateWinner2(sq),
     turns  |-> calculateTurns2(sq),
     status |-> calculateStatus2(calculateWinner2(sq), calculateTurns2(sq), p)]

RenderBoard ==
    /\ shown = <<NoEval, NoEval>>
    /\ shown' = <<boardEval1(squares, player), boardEval2(squares, player)>>
    /\ UNCHANGED <<squares, player, storeVars>>

NextEval == RenderBoard

SpecEval == InitEval /\ [][NextEval]_vars

----------------------------------------------------------------------------
(* The store on its own: setHistory and setCurrentMove called directly,    *)
(* with a value or with an updater function, no component mounted.         *)

\* The board after the first k moves of a game played on squares 0, 1, ...
boardAfter(k) ==
    [c \in Cells |-> IF c < k THEN (IF c % 2 = 0 THEN "X" ELSE "O") ELSE NULL]

HistoryValues ==
    UNION {[1..n -> {boardAfter(k) : k \in 0..2}] : n \in 1..MaxStoreHistory}

HistoryArgs ==
    {Value(h) : h \in HistoryValues} \cup {Updater(f) : f \in HistoryUpdaters}

MoveArgs ==
    {Value(n) : n \in 0..MaxStoreMove} \cup {Updater(f) : f \in MoveUpdaters}

CallSetHistory(arg) ==
    LET next == <<setHistory1(store[1], arg), setHistory2(store[2], arg)>>
    IN  /\ \A v \in Versions : Len(next[v].history) <= MaxStoreHistory
        /\ store' = next
        /\ last' = [op |-> "setHistory", arg |-> arg]
        /\ UNCHANGED <<view, pending, evalVars>>

CallSetCurrentMove(arg) ==
    LET next == <<setCurrentMove1(store[1], arg), setCurrentMove2(store[2], arg)>>
    IN  /\ \A v \in Versions :
               next[v].currentMove \in (0 - 1)..MaxStoreMove
        /\ store' = next
        /\ last' = [op |-> "setCurrentMove", arg |-> arg]
        /\ UNCHANGED <<view, pending, evalVars>>

NextStore ==
    \/ \E arg \in HistoryArgs : CallSetHistory(arg)
    \/ \E arg \in MoveArgs : CallSetCurrentMove(arg)

SpecStore == Init /\ [][NextStore]_vars

----------------------------------------------------------------------------
(* Handlers one store call at a time.  A handler starts when no handler is *)
(* running and the components show the store; it leaves its store calls    *)
(* in pending, each StoreWrite makes the next call, and the components     *)
(* re-render once the handler has returned.                                *)

Idle == pending = <<NoWrites, NoWrites>>

BeginClick(i) ==
    LET accepted == <<handleClickAccepts1(view[1], i),
                      handleClickAccepts2(view[2], i)>>
    IN  /\ Idle
        /\ view = rendered(store)
        /\ \A v \in Versions : Len(afterClick(i)[v].history) <= MaxStepHistory
        /\ pending' =
              << IF accepted[1]
                 THEN handlePlayWrites1(view[1], nextSquares1(view[1], i))
                 ELSE NoWrites,
                 IF accepted[2]
                 THEN handlePlayWrites2(view[2], nextSquares2(view[2], i))
                 ELSE NoWrites >>
        /\ last' = [op |-> "click", i |-> i, accepted |-> accepted,
                    cut |-> <<IF accepted[1] THEN later(view[1]) ELSE 0,
                              IF accepted[2] THEN later(view[2]) ELSE 0>>]
        /\ UNCHANGED <<store, view, evalVars>>

BeginJump(i) ==
    /\ Idle
    /\ view = rendered(store)
    /\ i \in historyButtons1(view[1]) \cap historyButtons2(view[2])
    /\ pending' = <<jumpToWrites1(i), jumpToWrites2(i)>>
    /\ last' = [op |-> "jump", i |-> i, accepted |-> <<FALSE, FALSE>>,
                cut |-> <<0, 0>>]
    /\ UNCHANGED <<store, view, evalVars>>

StoreWrite ==
    /\ ~Idle
    /\ store' = << IF pending[1] # NoWrites
                   THEN applyWrite1(store[1], Head(pending[1]))
                   ELSE store[1],
                   IF pending[2] # NoWrites
                   THEN applyWrite2(store[2], Head(pending[2]))
                   ELSE store[2] >>
    /\ pending' = << IF pending[1] # NoWrites THEN Tail(pending[1]) ELSE NoWrites,
                     IF pending[2] # NoWrites THEN Tail(pending[2]) ELSE NoWrites >>
    /\ UNCHANGED <<view, last, evalVars>>

Rerender ==
    /\ Idle
    /\ view # rendered(store)
    /\ view' = rendered(store)
    /\ UNCHANGED <<store, last, pending, evalVars>>

NextSteps ==
    \/ \E i \in Cells : i <= MaxStepSquare /\ BeginClick(i)
    \/ \E i \in 0..(MaxStepHistory - 1) : BeginJump(i)
    \/ StoreWrite
    \/ Rerender

SpecSteps == Init /\ [][NextSteps]_vars

----------------------------------------------------------------------------
(* Vocabulary of the properties *)

\* The board on display in definition v.
Displayed(v) == store[v].history[store[v].currentMove + 1]

\* The eight triples: rows, columns, diagonals, in the order they are checked.
Triples ==
    << <<0, 1, 2>>, <<3, 4, 5>>, <<6, 7, 8>>,
       <<0, 3, 6>>, <<1, 4, 7>>, <<2, 5, 8>>,
       <<0, 4, 8>>, <<2, 4, 6>> >>

TripleOf(sq, k, m) == \A j \in 1..3 : sq[Triples[k][j]] = m

Matching(sq) == {k \in 1..8 : \E m \in Markers : TripleOf(sq, k, m)}

HasLine(sq) == Matching(sq) # {}

FilledCount(sq) == Cardinality({c \in Cells : sq[c] \in Markers})

MarkerAt(c) == IF c % 2 = 0 THEN "X" ELSE "O"

\* sq2 is sq1 with square i, and only square i, changed to m.
OnlyCellSet(sq1, sq2, i, m) ==
    /\ sq2[i] = m
    /\ \A c \in Cells \ {i} : sq2[c] = sq1[c]

ClickStep == last'.op = "click"
JumpStep == last'.op = "jump"

Evaluated == shown # <<NoEval, NoEval>>

----------------------------------------------------------------------------
(* C1: an accepted play on history H at current move c leaves the history  *)
(* H[0..c] followed by the new board (length c+2, entries 0..c unchanged,  *)
(* everything after c discarded) and currentMove = c+1, whether or not c   *)
(* was the last index.                                                     *)
PlayTruncatesThenAppends ==
    [][\A v \in Versions :
         (ClickStep /\ last'.accepted[v]) =>
            LET H == store[v].history
                c == store[v].currentMove
                H2 == store'[v].history
            IN  /\ Len(H2) = c + 2
                /\ \A k \in 1..(c + 1) : H2[k] = H[k]
                /\ \E m \in Markers : OnlyCellSet(H[c + 1], H2[c + 2], last'.i, m)
                /\ store'[v].currentMove = c + 1
                /\ store'[v].currentMove = Len(H2) - 1]_vars

\* An accepted play made while at least two later entries existed.
PlayDiscardedFuture ==
    /\ last.op = "click"
    /\ \A v \in Versions :
         /\ last.accepted[v]
         /\ last.cut[v] >= 2
         /\ store[v].currentMove = Len(store[v].history) - 1

(* C2: jumpTo(i) sets currentMove to i and leaves the history exactly as   *)
(* it was.                                                                 *)
JumpChangesOnlyCurrentMove ==
    [][\A v \in Versions :
         JumpStep =>
            /\ store'[v].currentMove = last'.i
            /\ store'[v].history = store[v].history]_vars

\* A jump to an index at least two before the end of the history.
JumpedBack ==
    /\ last.op = "jump"
    /\ \A v \in Versions :
         /\ store[v].currentMove = last.i
         /\ Len(store[v].history) > last.i + 2

(* C3: in every reachable state the history is non-empty and currentMove   *)
(* is one of its indices.                                                  *)
CurrentMoveInRange ==
    \A v \in Versions :
        /\ Len(store[v].history) >= 1
        /\ store[v].currentMove >= 0
        /\ store[v].currentMove < Len(store[v].history)

\* A currentMove strictly inside a history of maximal length, after a jump.
InsideLongHistory ==
    /\ last.op = "jump"
    /\ \A v \in Versions :
         /\ Len(store[v].history) = MaxHistory
         /\ store[v].currentMove > 0
         /\ store[v].currentMove < Len(store[v].history) - 1

(* C4: history[0] is the empty board and every later entry differs from    *)
(* its predecessor in exactly one square, empty before and marked after.   *)
HistoryAddsOneMarkerPerEntry ==
    \A v \in Versions :
        /\ store[v].history[1] = [c \in Cells |-> NULL]
        /\ \A k \in 2..Len(store[v].history) :
             \E i \in Cells :
                /\ store[v].history[k - 1][i] = NULL
                /\ store[v].history[k][i] \in Markers
                /\ \A c \in Cells \ {i} :
                     store[v].history[k][c] = store[v].history[k - 1][c]

\* A history rebuilt after a jump back: a play accepted in the middle of a
\* longer history.
RebuiltHistory ==
    /\ last.op = "click"
    /\ \A v \in Versions :
         /\ last.accepted[v]
         /\ last.cut[v] >= 1
         /\ Len(store[v].history) >= 4

(* C5: a click on square i changes nothing when the displayed board has a  *)
(* marker in i or has a winner; otherwise it is accepted and the board     *)
(* played is the displayed board with square i alone changed, to the       *)
(* active player's marker.                                                 *)
ClickIgnoredOrPlayed ==
    [][\A v \in Versions :
         ClickStep =>
            LET sq == Displayed(v)
                c == store[v].currentMove
            IN  IF sq[last'.i] \in Markers \/ HasLine(sq)
                THEN /\ store'[v] = store[v]
                     /\ ~last'.accepted[v]
                ELSE /\ last'.accepted[v]
                     /\ store'[v] # store[v]
                     /\ OnlyCellSet(sq, store'[v].history[Len(store'[v].history)],
                                    last'.i, MarkerAt(c))]_vars

\* A click on an empty square of a won board, ignored.
ClickOnWonBoardIgnored ==
    /\ last.op = "click"
    /\ \A v \in Versions :
         /\ ~last.accepted[v]
         /\ Displayed(v)[last.i] = NULL
         /\ HasLine(Displayed(v))

(* C10: the marker an accepted click places is X when currentMove is even  *)
(* and O when it is odd, also right after a jump, whoever made the last    *)
(* move of the history.                                                    *)
MarkerFollowsCurrentMoveParity ==
    [][\A v \in Versions :
         (ClickStep /\ last'.accepted[v]) =>
            store'[v].history[Len(store'[v].history)][last'.i]
                = (IF store[v].currentMove % 2 = 0 THEN "X" ELSE "O")]_vars

\* X places a marker from an even index although X also made the last move
\* of the history that was jumped out of.
SamePlayerAgainAfterJump ==
    /\ last.op = "click"
    /\ \A v \in Versions :
         /\ last.accepted[v]
         /\ (store[v].currentMove - 1) % 2 = 0
         /\ last.cut[v] % 2 = 1
         /\ store[v].history[Len(store[v].history)][last.i] = "X"

----------------------------------------------------------------------------
(* Properties of the evaluator, under SpecEval *)

FirstMatching(sq) == CHOOSE k \in Matching(sq) : \A j \in Matching(sq) : k <= j

(* C6: for every board with all 9 squares filled and no winning line, the  *)
(* status text is "Draw", in both definitions of calculateStatus.          *)
FullBoardWithoutLineIsDraw ==
    (Evaluated /\ FilledCount(squares) = 9 /\ ~HasLine(squares)) =>
        \A v \in Versions : shown[v].status = "Draw"

(* C7: for every board with no three-in-a-row and at least one empty       *)
(* square, the empty board included, calculateWinner returns none and the  *)
(* status text is "Next player: " followed by the active player's marker,  *)
(* in both definitions of calculateStatus.                                 *)
OpenBoardShowsNextPlayer ==
    (Evaluated /\ FilledCount(squares) < 9 /\ ~HasLine(squares)) =>
        \A v \in Versions :
            /\ shown[v].winner = NULL
            /\ shown[v].status = "Next player: " \o player

(* C8: whenever the board has a winner w the status text is "Winner: w",   *)
(* also when all 9 squares are filled; with X on squares 0, 1, 2 after     *)
(* three moves of X and two of O it is "Winner: X".                        *)
WinnerShownBeforeDraw ==
    Evaluated =>
        \A v \in Versions :
            /\ HasLine(squares) =>
                 /\ shown[v].winner \in Markers
                 /\ shown[v].status = "Winner: " \o shown[v].winner
                 /\ shown[v].status # "Draw"
            /\ ( /\ TripleOf(squares, 1, "X")
                 /\ Cardinality({c \in Cells : squares[c] = "X"}) = 3
                 /\ Cardinality({c \in Cells : squares[c] = "O"}) = 2 ) =>
                 shown[v].status = "Winner: X"

\* A full board holding a winning line, evaluated.
FullBoardWithWinner ==
    /\ Evaluated
    /\ FilledCount(squares) = 9
    /\ Matching(squares) = {8}
    /\ \A v \in Versions : shown[v].status = "Winner: X"

(* C9: calculateWinner returns the marker of the first of the 8 triples    *)
(* (in the order rows, columns, diagonals) whose three squares hold the    *)
(* same marker, and none exactly when there is no such triple; a triple    *)
(* of three empty squares is no winner.                                    *)
WinnerIsFirstMatchingTriple ==
    Evaluated =>
        \A v \in Versions :
            /\ shown[v].winner \in Markers <=> HasLine(squares)
            /\ shown[v].winner = NULL <=> ~HasLine(squares)
            /\ HasLine(squares) =>
                 shown[v].winner = squares[Triples[FirstMatching(squares)][1]]

\* Two triples match with different markers, after an empty first row.
LaterTripleWinsOverEmptyRow ==
    /\ Evaluated
    /\ \A c \in {0, 1, 2} : squares[c] = NULL
    /\ TripleOf(squares, 2, "O")
    /\ TripleOf(squares, 3, "X")
    /\ \A v \in Versions : shown[v].winner = "O"

----------------------------------------------------------------------------
(* Properties of whole games, under SpecFull *)

Class(sq) ==
    IF HasLine(sq) THEN "Won"
    ELSE IF FilledCount(sq) = 9 THEN "Drawn"
    ELSE "InProgress"

\* Putting m on the empty square i of sq fills one of the eight triples.
CompletesLine(sq, i, m) ==
    \E k \in 1..8 :
        /\ \E j \in 1..3 : Triples[k][j] = i
        /\ \A j \in 1..3 : Triples[k][j] # i => sq[Triples[k][j]] = m

(* C11: an accepted click on an InProgress board leads to Won exactly when *)
(* the move completes a line, to Drawn exactly when it fills the ninth     *)
(* square without completing a line, and to InProgress otherwise; while    *)
(* the displayed board is Won or Drawn no click on any of the 9 squares    *)
(* changes history or currentMove.                                         *)
ClickFollowsGameStates ==
    [][\A v \in Versions :
         ClickStep =>
            LET sq == Displayed(v)
                sq2 == store'[v].history[store'[v].currentMove + 1]
                i == last'.i
            IN  IF Class(sq) # "InProgress"
                THEN /\ store'[v] = store[v]
                     /\ ~last'.accepted[v]
                ELSE last'.accepted[v] =>
                     /\ Class(sq2) = "Won" <=> CompletesLine(sq, i, sq2[i])
                     /\ Class(sq2) = "Drawn" <=>
                          (FilledCount(sq) = 8 /\ ~CompletesLine(sq, i, sq2[i]))
                     /\ Class(sq2) = "InProgress" <=>
                          (FilledCount(sq) < 8 /\ ~CompletesLine(sq, i, sq2[i]))]_vars

\* The ninth square filled without a line: the click led to Drawn.
ClickLedToDrawn ==
    /\ last.op = "click"
    /\ \A v \in Versions :
         /\ last.accepted[v]
         /\ Class(Displayed(v)) = "Drawn"

(* C12: only the last entry of the history can be Won or Drawn; a jump     *)
(* from a Won or Drawn board to an earlier index leaves the history        *)
(* unchanged and displays an InProgress board, on which a click on an      *)
(* empty square is accepted.                                               *)
OnlyLastEntryTerminal ==
    /\ [](\A v \in Versions :
            \A k \in 1..(Len(store[v].history) - 1) :
                Class(store[v].history[k]) = "InProgress")
    /\ [][\A v \in Versions :
            /\ (JumpStep /\ Class(Displayed(v)) # "InProgress"
                         /\ last'.i < store[v].currentMove) =>
                  /\ store'[v].history = store[v].history
                  /\ Class(store'[v].history[store'[v].currentMove + 1])
                        = "InProgress"
            /\ (ClickStep /\ store[v].currentMove < Len(store[v].history) - 1
                          /\ Displayed(v)[last'.i] = NULL) =>
                  /\ last'.accepted[v]
                  /\ store'[v] # store[v]]_vars

\* A jump back inside a history that ends in a drawn board.
JumpedBackFromDraw ==
    /\ last.op = "jump"
    /\ \A v \in Versions :
         /\ Class(store[v].history[Len(store[v].history)]) = "Drawn"
         /\ store[v].currentMove < Len(store[v].history) - 1
         /\ Class(Displayed(v)) = "InProgress"

(* C18: history[i] has exactly i filled squares, ceil(i/2) of them X and   *)
(* floor(i/2) of them O; so the history has at most 10 entries,            *)
(* currentMove is at most 9, every accepted click raises currentMove by    *)
(* one and none is accepted at currentMove 9.                              *)
CountOf(sq, m) == Cardinality({c \in Cells : sq[c] = m})

HistoryEntryCounts ==
    /\ [](\A v \in Versions :
            /\ \A k \in 1..Len(store[v].history) :
                 /\ FilledCount(store[v].history[k]) = k - 1
                 /\ CountOf(store[v].history[k], "X") = k \div 2
                 /\ CountOf(store[v].history[k], "O") = (k - 1) \div 2
                 /\ CountOf(store[v].history[k], NULL) = 9 - (k - 1)
            /\ Len(store[v].history) <= 10
            /\ store[v].currentMove <= 9)
    /\ [][\A v \in Versions :
            (ClickStep /\ last'.accepted[v]) =>
                /\ store'[v].currentMove = store[v].currentMove + 1
                /\ store[v].currentMove < 9]_vars

\* Nine clicks accepted in a row: the board is full.
NineMovesPlayed ==
    /\ last.op = "click"
    /\ \A v \in Versions :
         /\ last.accepted[v]
         /\ last.cut[v] = 0
         /\ store[v].currentMove = 9
         /\ Len(store[v].history) = 10

----------------------------------------------------------------------------
(* Scenarios and the succession of events, under Spec *)

XOnly(i) == [c \in Cells |-> IF c = i THEN "X" ELSE NULL]

NoMarkers == [c \in Cells |-> NULL]

AtStart(v) == store[v] = [history |-> <<NoMarkers>>, currentMove |-> 0]

(* C13: after 5 accepted moves (6 boards, currentMove 5) and jump(0), an   *)
(* accepted move on square i leaves the history [empty board, board with   *)
(* only X on i] and currentMove 1; the history buttons are those of        *)
(* indices 0 and 1, so the former entries 2..5 cannot be reached.          *)
DivergeAfterJumpToStart ==
    [][\A v \in Versions :
         ( /\ last.op = "jump" /\ last.i = 0
           /\ Len(store[v].history) = 6
           /\ store[v].currentMove = 0
           /\ ClickStep /\ last'.accepted[v] ) =>
            /\ store'[v].history = <<NoMarkers, XOnly(last'.i)>>
            /\ store'[v].currentMove = 1
            /\ Len(view'[v].history) = 2]_vars

\* A move accepted at index 0 of a history of 6 boards.
DivergedFromSixBoards ==
    /\ last.op = "click"
    /\ \A v \in Versions :
         /\ last.accepted[v]
         /\ last.cut[v] = 5
         /\ Len(store[v].history) = 2
         /\ store[v].currentMove = 1

(* C14: from the initial state a click on any square i is accepted and     *)
(* yields history [empty board, board with only X on i], currentMove 1     *)
(* and the status text "Next player: O"; for i = 4 the new board is        *)
(* [_,_,_,_,X,_,_,_,_].                                                    *)
FirstClickPlacesX ==
    /\ [](\A i \in Cells :
            /\ AtStart(1) =>
                 LET r == handleClick1(store[1], view[1], i)
                 IN  /\ r = [history |-> <<NoMarkers, XOnly(i)>>, currentMove |-> 1]
                     /\ boardStatus1(render1(r)) = "Next player: O"
            /\ AtStart(2) =>
                 LET r == handleClick2(store[2], view[2], i)
                 IN  /\ r = [history |-> <<NoMarkers, XOnly(i)>>, currentMove |-> 1]
                     /\ boardStatus2(render2(r)) = "Next player: O")
    /\ [][\A v \in Versions :
            (AtStart(v) /\ ClickStep) =>
                /\ last'.accepted[v]
                /\ store'[v] = [history |-> <<NoMarkers, XOnly(last'.i)>>,
                                currentMove |-> 1]
                /\ last'.i = 4 =>
                     store'[v].history[2]
                        = (0 :> NULL @@ 1 :> NULL @@ 2 :> NULL @@ 3 :> NULL @@
                           4 :> "X" @@ 5 :> NULL @@ 6 :> NULL @@ 7 :> NULL @@
                           8 :> NULL)]_vars

\* The first move of a game, on square 4.
FirstMoveOnCentre ==
    /\ last.op = "click"
    /\ last.i = 4
    /\ \A v \in Versions :
         /\ last.accepted[v]
         /\ last.cut[v] = 0
         /\ store[v].currentMove = 1
         /\ Len(store[v].history) = 2
    /\ boardStatus1(view[1]) = "Next player: O"
    /\ boardStatus2(view[2]) = "Next player: O"

\* play and jump applied to a state S, one event at a time.
PlayOn(S, i) ==
    LET b == [S.history[S.currentMove + 1] EXCEPT ![i] = MarkerAt(S.currentMove)]
    IN  [history |-> Append(SubSeq(S.history, 1, S.currentMove + 1), b),
         currentMove |-> S.currentMove + 1]

JumpOn(S, i) == [history |-> S.history, currentMove |-> i]

(* C17: every event is applied to the state the previous event left: the   *)
(* history and currentMove a handler computes from are those of the store  *)
(* at that moment, and the store after the event is play or jump applied   *)
(* to the store before it.                                                 *)
EventsApplyInSuccession ==
    /\ [](\A v \in Versions :
            /\ view[v].history = store[v].history
            /\ view[v].currentMove = store[v].currentMove)
    /\ [][\A v \in Versions :
            /\ (ClickStep /\ last'.accepted[v]) =>
                  store'[v] = PlayOn(store[v], last'.i)
            /\ (ClickStep /\ ~last'.accepted[v]) => store'[v] = store[v]
            /\ JumpStep => store'[v] = JumpOn(store[v], last'.i)]_vars

\* A move, a jump back and a move again.
MoveJumpMove ==
    /\ last.op = "click"
    /\ \A v \in Versions :
         /\ last.accepted[v]
         /\ last.cut[v] = 1
         /\ store[v].currentMove = 2
         /\ view[v].history = store[v].history
         /\ view[v].currentMove = store[v].currentMove

(* C19: the two definitions of the game have the same history and the      *)
(* same currentMove after every event and display the same status text in  *)
(* every state.                                                            *)
DefinitionsEquivalent ==
    /\ store[1].history = store[2].history
    /\ store[1].currentMove = store[2].currentMove
    /\ boardStatus1(view[1]) = boardStatus2(view[2])

----------------------------------------------------------------------------
(* The store's operations and the order of handlePlay's calls *)

(* C15: each store operation replaces exactly one field.  setHistory with  *)
(* a value sets history to it, with a function sets history to the         *)
(* function applied to the current history, and leaves currentMove as it   *)
(* was; setCurrentMove does the same for currentMove and leaves history as *)
(* it was.                                                                 *)
SettersReplaceOneField ==
    [][\A v \in Versions :
         /\ last'.op = "setHistory" =>
              /\ store'[v].currentMove = store[v].currentMove
              /\ store'[v].history =
                    IF last'.arg.type = "value" THEN last'.arg.value
                    ELSE applyHistoryUpdater(last'.arg.fn, store[v].history)
         /\ last'.op = "setCurrentMove" =>
              /\ store'[v].history = store[v].history
              /\ store'[v].currentMove =
                    IF last'.arg.type = "value" THEN last'.arg.value
                    ELSE applyMoveUpdater(last'.arg.fn, store[v].currentMove)
         /\ DOMAIN store'[v] = {"history", "currentMove"}]_vars

\* setCurrentMove called with an updater on a store holding three boards.
UpdaterMovedPastStart ==
    /\ last.op = "setCurrentMove"
    /\ last.arg = Updater("increment")
    /\ \A v \in Versions :
         /\ store[v].currentMove = 2
         /\ Len(store[v].history) = 3

(* C16: handlePlay calls setHistory, then setCurrentMove.  Between the two *)
(* calls 0 <= currentMove < length(history) holds and history[currentMove] *)
(* is the board that was on display before the click; currentMove is      *)
(* never set to an index the history does not contain.                     *)
HandlePlayWritesHistoryFirst ==
    \A v \in Versions :
        /\ store[v].currentMove >= 0
        /\ store[v].currentMove < Len(store[v].history)
        /\ (last.op = "click" /\ Len(pending[v]) = 2) =>
              /\ pending[v][1].op = "setHistory"
              /\ pending[v][2].op = "setCurrentMove"
        /\ (last.op = "click" /\ Len(pending[v]) = 1) =>
              /\ pending[v][1].op = "setCurrentMove"
              /\ pending[v][1].arg.value < Len(store[v].history)
              /\ store[v].currentMove = view[v].currentMove
              /\ Displayed(v) = view[v].history[view[v].currentMove + 1]

\* Between the two calls of a handlePlay that dropped later entries.
BetweenWritesAfterCut ==
    /\ last.op = "click"
    /\ \A v \in Versions :
         /\ last.accepted[v]
         /\ last.cut[v] >= 1
         /\ Len(pending[v]) = 1
         /\ Len(store[v].history) = view[v].currentMove + 2

====
